---- MODULE Spec2Model ----
(***************************************************************************)
(* daemonbase: the process lifecycle controller of src/src/process.rs.     *)
(*                                                                         *)
(* The state is the operating-system view of the processes a launch of the *)
(* daemon creates (identity, session, directories, descriptor table), the  *)
(* PID file with its advisory lock, and each process's position in         *)
(* Process::setup_daemon / Process::drop_privileges.  Every system call    *)
(* the code makes is one action; its outcome is chosen by the environment  *)
(* unless the kernel's rules decide it (lock contention, lowest free       *)
(* descriptor, privilege checks).                                          *)
(***************************************************************************)
EXTENDS Integers, Sequences, FiniteSets, TLC

VARIABLES
    config,     \* process::Config, shared by every launch of the daemon
    procs,      \* pid -> process state (OS view + the Process value)
    nextPid,    \* the pid the next fork() hands out
    pidFile,    \* the content of the file at config.pid_file
    ofdOffset,  \* launch -> file offset of the open file description
    lockHolder  \* launch whose open file description holds the flock, or 0

vars == <<config, procs, nextPid, pidFile, ofdOffset, lockHolder>>

-----------------------------------------------------------------------------
(* Bounds of the model.                                                    *)

\* The original process of the first launch has this pid; later pids follow.
FirstPid == 9

\* Descriptors 0..MaxFd exist in every descriptor table.
MaxFd == 6

\* How often the application calls drop_privileges() on one Process.
MaxDropCalls == 2

\* The longest path, in components, that adjust_path is called with.
MaxPathLen == 3

\* The number of calls the application makes on its EnvSockets.
MaxSockOps == 2

\* The threads of a process that log or switch logging.
MaxThreads == 2

\* The number of log and switch_logging calls one thread makes.
MaxLogCalls == 2

\* Counts above ParseCap are represented by ParseCap.
ParseCap == 1100

\* const SD_LISTEN_FDS_START: RawFd = 3;
SD_LISTEN_FDS_START == 3

\* const MAX_LISTEN_FDS: usize = 32;
MAX_LISTEN_FDS == 32

-----------------------------------------------------------------------------
(* Option<T> as a sequence of length 0 or 1.                               *)

None == <<>>

Some(x) == <<x>>

IsSome(o) == Len(o) = 1

Unwrap(o) == o[1]

\* Option::or
OrElse(a, b) == IF IsSome(a) THEN a ELSE b

-----------------------------------------------------------------------------
(* Inputs: the configurations and the launcher's environment.              *)

Launches == {1, 2}

RootPath == <<>>

ChrootDir == <<"jail">>

WorkDirs == {<<"jail", "work">>, <<"var">>}

PidPath == <<"run", "daemon.pid">>

LaunchDir == <<"home">>

\* UserId { name, uid, gid } resolved from the passwd database.
TheUser == [name |-> "daemon", uid |-> 1000, gid |-> 1000]

\* GroupId { name, gid } resolved from the group database.
TheGroup == [name |-> "service", gid |-> 2000]

Configs ==
    [pid_file    : {None, Some(PidPath)},
     working_dir : {None} \cup {Some(w) : w \in WorkDirs},
     chroot      : {None, Some(ChrootDir)},
     user        : {None, Some(TheUser)},
     group       : {None, Some(TheGroup)}]

Fds == 0..MaxFd

\* The descriptor tables a process may have when setup_daemon is called:
\* each standard stream is the terminal or is closed, nothing else is open.
InitialFdTables ==
    {t \in [Fds -> {"tty", "closed"}] : \A fd \in Fds : fd > 2 => t[fd] = "closed"}

-----------------------------------------------------------------------------
(* Pure helpers.                                                           *)

Digit(d) == <<"0", "1", "2", "3", "4", "5", "6", "7", "8", "9">>[d + 1]

\* format!("{}", pid): the decimal digits of a positive number.
RECURSIVE Decimal(_)
Decimal(n) == IF n < 10 THEN <<Digit(n)>> ELSE Decimal(n \div 10) \o <<Digit(n % 10)>>

\* Path::starts_with by whole components.
IsPrefix(a, b) == Len(a) <= Len(b) /\ SubSeq(b, 1, Len(a)) = a

\* open(2) returns the lowest descriptor that is not open.
HasFreeFd(fdt) == \E fd \in Fds : fdt[fd] = "closed"

LowestFree(fdt) ==
    CHOOSE fd \in Fds : fdt[fd] = "closed" /\ \A g \in Fds : g < fd => fdt[g] # "closed"

-----------------------------------------------------------------------------
(* Paths as std::path::Path compares them: by their components.  `abs`     *)
(* says that the path starts at the root directory.                        *)

PathOf(abs, comps) == [abs |-> abs, comps |-> comps]

\* A path of the configuration, which is absolute.
AbsPath(comps) == PathOf(TRUE, comps)

\* Path::components: the root directory is a component of its own.
Components(path) == IF path.abs THEN <<"/">> \o path.comps ELSE path.comps

\* Path::strip_prefix: what follows base in path if the components of base
\* start those of path, None for Err(StripPrefixError).
StripPrefix(path, base) ==
    LET pc == Components(path)
        bc == Components(base)
    IN  IF IsPrefix(bc, pc)
        THEN Some(PathOf(path.abs /\ ~base.abs,
                         SubSeq(path.comps, Len(base.comps) + 1, Len(path.comps))))
        ELSE None

\* Path::join: an absolute path replaces the path it is joined to.
Join(a, b) == IF b.abs THEN b ELSE PathOf(a.abs, a.comps \o b.comps)

\* Mutant: the stripped path is returned as it is, not joined to /.
adjust_path_unrooted(cfg, path) ==
    IF IsSome(cfg.chroot)
    THEN StripPrefix(path, AbsPath(Unwrap(cfg.chroot)))
    ELSE Some(path)

\* Process::adjust_path: Some(p) is Ok(p), None is Err(StripPrefixError).
adjust_path(cfg, path) ==
    IF IsSome(cfg.chroot)
    THEN LET stripped == StripPrefix(path, AbsPath(Unwrap(cfg.chroot)))
         IN  IF IsSome(stripped)
             THEN Some(Join(AbsPath(RootPath), Unwrap(stripped)))
             ELSE None
    ELSE Some(path)

-----------------------------------------------------------------------------
(* Control flow of the Process methods: the system calls each method makes, *)
(* in the order the code makes them.  A process's position is an index     *)
(* into the list of its current call.                                      *)

\* Process::change_working_dir: the directory it changes to, if any.
\* Mutant: the chroot directory is not considered.
WorkingDirTargetNoChroot(cfg, background) ==
    IF background THEN OrElse(cfg.working_dir, Some(RootPath)) ELSE cfg.working_dir

\* Mutant: the working directory defaults to / in the foreground as well.
WorkingDirTargetAlwaysRoot(cfg, background) ==
    OrElse(OrElse(cfg.working_dir, cfg.chroot), Some(RootPath))

WorkingDirTarget(cfg, background) ==
    LET path == OrElse(cfg.working_dir, cfg.chroot)
    IN  IF background THEN OrElse(path, Some(RootPath)) ELSE path

change_working_dir(cfg, background) ==
    IF IsSome(WorkingDirTarget(cfg, background)) THEN <<"set_current_dir">> ELSE <<>>

create_pid_file(cfg) ==
    IF IsSome(cfg.pid_file) THEN <<"open_pid_file", "flock">> ELSE <<>>

redirect_stdio ==
    <<"open_dev_null", "dup2_stdin", "dup2_stdout", "dup2_stderr", "close_dev_null">>

\* Mutant: the first fork is made before the PID file is created.
setup_daemon_fork_first(cfg, background) ==
    IF background
    THEN <<"fork">> \o create_pid_file(cfg) \o <<"setsid", "fork">>
         \o change_working_dir(cfg, TRUE) \o <<"umask">> \o redirect_stdio
    ELSE create_pid_file(cfg) \o change_working_dir(cfg, FALSE)

\* Mutant: there is no second fork.
setup_daemon_single_fork(cfg, background) ==
    create_pid_file(cfg)
    \o (IF background
        THEN <<"fork", "setsid">> \o change_working_dir(cfg, TRUE)
             \o <<"umask">> \o redirect_stdio
        ELSE change_working_dir(cfg, FALSE))

setup_daemon(cfg, background) ==
    create_pid_file(cfg)
    \o (IF background
        THEN <<"fork", "setsid", "fork">>
             \o change_working_dir(cfg, TRUE)
             \o <<"umask">>
             \o redirect_stdio
        ELSE change_working_dir(cfg, FALSE))

\* Mutant: the user id is changed before the group id.
set_user_and_group_uid_first(cfg) ==
    IF IsSome(cfg.user) THEN <<"initgroups", "setresuid", "setresgid">> ELSE <<>>

set_user_and_group(cfg) ==
    IF IsSome(cfg.user) THEN <<"initgroups", "setresgid", "setresuid">> ELSE <<>>

\* Mutant: the identity is switched before the root is changed.
drop_privileges_chroot_late(cfg) ==
    set_user_and_group(cfg)
    \o (IF IsSome(cfg.chroot) THEN <<"chroot">> ELSE <<>>)
    \o <<"write_pid_file">>

\* Mutant: set_user_and_group is not called.
drop_privileges_skip_identity(cfg) ==
    (IF IsSome(cfg.chroot) THEN <<"chroot">> ELSE <<>>) \o <<"write_pid_file">>

drop_privileges(cfg) ==
    (IF IsSome(cfg.chroot) THEN <<"chroot">> ELSE <<>>)
    \o set_user_and_group(cfg)
    \o <<"write_pid_file">>

\* Mutant: the configured group is not considered.
TargetGidOfUser(cfg) == Unwrap(cfg.user).gid

\* The target group id of set_user_and_group.
TargetGid(cfg) ==
    IF IsSome(cfg.group) THEN Unwrap(cfg.group).gid ELSE Unwrap(cfg.user).gid

-----------------------------------------------------------------------------
(* Processes.                                                              *)

Pids == DOMAIN procs

\* The session of the shell the daemon is launched from.
ShellSession == 1

Threads == 1..MaxThreads

\* The main thread: a panic in it ends the process.
MainThread == 1

\* GLOBAL_LOGGER and the log crate's maximum level after
\* Logger::init_logging, with what the threads of the process are doing:
\* `inner` is the OnceLock, `mutex` the thread that holds the Mutex of the
\* installed Dispatch or 0, `switches` the outcomes of the switch_logging
\* calls and `installs` the number of times a Dispatch was put in `inner`.
\* `logger` is the Logger the application made with Logger::from_config.
InitialLog ==
    [logger    |-> [target |-> "Default", level |-> "Warn"],
     inner     |-> None,
     max_level |-> "Warn",
     mutex     |-> 0,
     threads   |-> [t \in Threads |-> [pc |-> "idle", calls |-> 0, logger |-> None]],
     switches  |-> <<>>,
     installs  |-> 0]

\* The state of the process a launcher starts, at the call of setup_daemon:
\* run by root from a job-control shell, so it leads its own process group
\* in the shell's session.
InitialProc(launch, pid, background, fdt) ==
    [inst       |-> launch,
     call       |-> "setup_daemon",
     state      |-> "running",   \* running, ok, err, forked, exited
     pc         |-> 1,
     drops      |-> 0,
     exit_code  |-> None,
     background |-> background,
     file       |-> None,        \* create_pid_file's local `file`
     pid_file   |-> None,        \* Process.pid_file
     dev_null   |-> None,        \* redirect_stdio's local `dev_null`
     fdt        |-> fdt,
     cwd        |-> LaunchDir,
     root       |-> RootPath,
     sid        |-> ShellSession,
     pgid       |-> pid,
     ruid |-> 0, euid |-> 0, suid |-> 0,
     rgid |-> 0, egid |-> 0, sgid |-> 0,
     groups     |-> "root",
     umask      |-> 18,
     trace      |-> <<>>,
     diag       |-> <<>>,
     adjusted   |-> None,        \* the last call of adjust_path
     environ    |-> [LISTEN_PID |-> None, LISTEN_FDS |-> None],
     cloexec    |-> {},          \* the descriptors with FD_CLOEXEC set
     sockets    |-> None,        \* the application's EnvSockets, its `fds`
     from_env   |-> None,        \* the call of EnvSockets::from_env
     last       |-> None,        \* the last call on the EnvSockets
     taken      |-> <<>>,        \* the sockets handed to the application
     nops       |-> 0,
     log        |-> InitialLog]

Program(p) ==
    IF procs[p].call = "setup_daemon"
    THEN setup_daemon(config, procs[p].background)
    ELSE drop_privileges(config)

\* The system call process p makes next, or "none".
Step(p) ==
    IF procs[p].state = "running" /\ procs[p].pc <= Len(Program(p))
    THEN Program(p)[procs[p].pc]
    ELSE "none"

Event(p, op, ok, data) == [op |-> op, ok |-> ok, by |-> p, data |-> data]

\* The call succeeded: the method goes on with its next statement.
Advance(r, ev) == [r EXCEPT !.pc = @ + 1, !.trace = Append(@, ev)]

\* Mutant: the error is ignored and the method goes on.
FailIgnored(r, ev, msg) == [r EXCEPT !.pc = @ + 1, !.trace = Append(@, ev)]

\* The call failed: error!(msg); return Err(Failed).
Fail(r, ev, msg) ==
    [r EXCEPT !.state = "err", !.trace = Append(@, ev), !.diag = Append(@, msg)]

\* The open file description of a launch's PID file lives while a live
\* process has a descriptor for it.
OfdOpen(launch, ps) ==
    \E q \in DOMAIN ps :
        /\ ps[q].inst = launch
        /\ ps[q].state # "exited"
        /\ \E fd \in Fds : ps[q].fdt[fd] = "file"

\* flock(2): the lock goes away with the last descriptor of its description.
LockAfter(holder, ps) == IF holder # 0 /\ ~OfdOpen(holder, ps) THEN 0 ELSE holder

\* write(2) of bytes at an offset; a gap reads as NUL bytes.
WriteAt(content, offset, bytes) ==
    LET end == offset + Len(bytes)
        n   == IF Len(content) > end THEN Len(content) ELSE end
    IN  [i \in 1..n |->
            IF i > offset /\ i <= end THEN bytes[i - offset]
            ELSE IF i <= Len(content) THEN content[i]
            ELSE "NUL"]

-----------------------------------------------------------------------------
(* Process::create_pid_file.                                               *)

\* OpenOptions::new().write(true).create(true).truncate(true).open(path)
OpenPidFile(p) ==
    /\ Step(p) = "open_pid_file"
    /\ \E ok \in BOOLEAN :
        /\ ok => HasFreeFd(procs[p].fdt)
        /\ IF ok
           THEN LET fd == LowestFree(procs[p].fdt)
                    r  == [procs[p] EXCEPT !.fdt[fd] = "file", !.file = Some(fd)]
                IN  /\ procs' = [procs EXCEPT ![p] = Advance(r, Event(p, "open_pid_file", TRUE, <<>>))]
                    /\ pidFile' = <<>>
                    /\ ofdOffset' = [ofdOffset EXCEPT ![procs[p].inst] = 0]
           ELSE /\ procs' = [procs EXCEPT ![p] =
                        Fail(@, Event(p, "open_pid_file", FALSE, <<>>), "failed to create PID file")]
                /\ UNCHANGED <<pidFile, ofdOffset>>
    /\ UNCHANGED <<config, nextPid, lockHolder>>

\* Mutant: a shared lock is asked for, which another holder does not refuse.
FlockShared(holder, launch) == TRUE

\* flock(fd, LOCK_EX | LOCK_NB) is granted unless another open file
\* description holds a lock on the file.
FlockExclusiveNonblock(holder, launch) == holder \in {0, launch}

\* Flock::lock(file, FlockArg::LockExclusiveNonblock); on failure the file
\* is dropped, which closes its descriptor.  The event notes which launch
\* held the lock when the call was made.
LockPidFile(p) ==
    /\ Step(p) = "flock"
    /\ LET fd   == Unwrap(procs[p].file)
           free == FlockExclusiveNonblock(lockHolder, procs[p].inst)
           ev   == Event(p, "flock", free, Decimal(lockHolder))
       IN  IF free
           THEN /\ procs' = [procs EXCEPT ![p] =
                        Advance([@ EXCEPT !.pid_file = Some(fd), !.file = None], ev)]
                /\ lockHolder' = procs[p].inst
           ELSE /\ procs' = [procs EXCEPT ![p] =
                        Fail([@ EXCEPT !.fdt[fd] = "closed", !.file = None], ev,
                             "cannot lock PID file")]
                /\ lockHolder' = LockAfter(lockHolder, procs')
    /\ UNCHANGED <<config, nextPid, pidFile, ofdOffset>>

-----------------------------------------------------------------------------
(* Process::perform_fork.                                                  *)

\* fork(): the child is a copy of the parent that goes on after the call;
\* the parent is left with std::process::exit(0) as its only statement.
\* Mutant: the child exits and the parent goes on.
AfterForkChildExits(r, is_parent, ev) ==
    IF is_parent THEN Advance(r, ev)
    ELSE [r EXCEPT !.state = "forked", !.trace = Append(@, ev)]

\* if res.is_parent() { std::process::exit(0) }  Ok(())
AfterFork(r, is_parent, ev) ==
    IF is_parent THEN [r EXCEPT !.state = "forked", !.trace = Append(@, ev)]
    ELSE Advance(r, ev)

PerformFork(p) ==
    /\ Step(p) = "fork"
    /\ \E ok \in BOOLEAN :
        IF ok
        THEN LET child == nextPid
                 ev    == Event(p, "fork", TRUE, Decimal(child))
                 me    == AfterFork(procs[p], TRUE, ev)
                 kid   == AfterFork(procs[p], FALSE, ev)
             IN  /\ procs' = [q \in Pids \cup {child} |->
                                IF q = child THEN kid ELSE IF q = p THEN me ELSE procs[q]]
                 /\ nextPid' = nextPid + 1
        ELSE /\ procs' = [procs EXCEPT ![p] =
                     Fail(@, Event(p, "fork", FALSE, <<>>), "failed to detach")]
             /\ UNCHANGED nextPid
    /\ UNCHANGED <<config, pidFile, ofdOffset, lockHolder>>

\* What exit(2) does to a process: all its descriptors are closed.
Exited(p, r, code) ==
    [r EXCEPT !.state = "exited", !.exit_code = Some(code),
              !.fdt = [fd \in Fds |-> "closed"],
              !.trace = Append(@, Event(p, "exit", TRUE, Decimal(code)))]

\* Mutant: the parent of a fork exits with status 1.
ExitParentWithFailure(p) ==
    /\ procs[p].state = "forked"
    /\ procs' = [procs EXCEPT ![p] = Exited(p, @, 1)]
    /\ lockHolder' = LockAfter(lockHolder, procs')
    /\ UNCHANGED <<config, nextPid, pidFile, ofdOffset>>

\* std::process::exit(0) in the parent of a fork.
ExitParent(p) ==
    /\ procs[p].state = "forked"
    /\ procs' = [procs EXCEPT ![p] = Exited(p, @, 0)]
    /\ lockHolder' = LockAfter(lockHolder, procs')
    /\ UNCHANGED <<config, nextPid, pidFile, ofdOffset>>

-----------------------------------------------------------------------------
(* The remaining steps of Process::setup_daemon.                           *)

\* setsid(2) fails for a process group leader.
Setsid(p) ==
    /\ Step(p) = "setsid"
    /\ \E ok \in BOOLEAN :
        /\ ok => procs[p].pgid # p
        /\ procs' = [procs EXCEPT ![p] =
              IF ok
              THEN Advance([@ EXCEPT !.sid = p, !.pgid = p], Event(p, "setsid", TRUE, <<>>))
              ELSE Fail(@, Event(p, "setsid", FALSE, <<>>), "failed to create new session")]
    /\ UNCHANGED <<config, nextPid, pidFile, ofdOffset, lockHolder>>

\* set_current_dir(path): the path is resolved under the process's root.
SetCurrentDir(p) ==
    /\ Step(p) = "set_current_dir"
    /\ \E ok \in BOOLEAN :
        LET path == Unwrap(WorkingDirTarget(config, procs[p].background))
        IN  procs' = [procs EXCEPT ![p] =
              IF ok
              THEN Advance([@ EXCEPT !.cwd = procs[p].root \o path],
                           Event(p, "set_current_dir", TRUE, path))
              ELSE Fail(@, Event(p, "set_current_dir", FALSE, path),
                        "failed to set working directory")]
    /\ UNCHANGED <<config, nextPid, pidFile, ofdOffset, lockHolder>>

\* umask(Mode::empty()) cannot fail.
Umask(p) ==
    /\ Step(p) = "umask"
    /\ procs' = [procs EXCEPT ![p] =
          Advance([@ EXCEPT !.umask = 0], Event(p, "umask", TRUE, <<>>))]
    /\ UNCHANGED <<config, nextPid, pidFile, ofdOffset, lockHolder>>

-----------------------------------------------------------------------------
(* Process::redirect_stdio.                                                *)

\* open("/dev/null", O_RDWR)
OpenDevNull(p) ==
    /\ Step(p) = "open_dev_null"
    /\ \E ok \in BOOLEAN :
        /\ ok => HasFreeFd(procs[p].fdt)
        /\ procs' = [procs EXCEPT ![p] =
              IF ok
              THEN LET fd == LowestFree(procs[p].fdt)
                   IN  Advance([@ EXCEPT !.fdt[fd] = "null", !.dev_null = Some(fd)],
                               Event(p, "open_dev_null", TRUE, Decimal(fd)))
              ELSE Fail(@, Event(p, "open_dev_null", FALSE, <<>>), "failed to open /dev/null")]
    /\ UNCHANGED <<config, nextPid, pidFile, ofdOffset, lockHolder>>

\* The standard stream a dup2 step of redirect_stdio targets.
StdFd(step) ==
    CASE step = "dup2_stdin" -> 0
      [] step = "dup2_stdout" -> 1
      [] step = "dup2_stderr" -> 2

\* dup2(oldfd, newfd): newfd is silently closed first and then refers to
\* what oldfd refers to; nothing happens when both are the same descriptor.
Dup2Table(fdt, oldfd, newfd) == [fdt EXCEPT ![newfd] = fdt[oldfd]]

\* dup2(dev_null, <standard stream>)
Dup2(p) ==
    /\ Step(p) \in {"dup2_stdin", "dup2_stdout", "dup2_stderr"}
    /\ \E ok \in BOOLEAN :
        LET newfd == StdFd(Step(p))
            oldfd == Unwrap(procs[p].dev_null)
        IN  procs' = [procs EXCEPT ![p] =
              IF ok
              THEN Advance([@ EXCEPT !.fdt = Dup2Table(@, oldfd, newfd)],
                           Event(p, Step(p), TRUE, Decimal(oldfd)))
              ELSE Fail(@, Event(p, Step(p), FALSE, Decimal(oldfd)),
                        "failed to redirect to /dev/null")]
    /\ lockHolder' = LockAfter(lockHolder, procs')
    /\ UNCHANGED <<config, nextPid, pidFile, ofdOffset>>

\* close(dev_null): the descriptor is released whatever close returns.
CloseDevNull(p) ==
    /\ Step(p) = "close_dev_null"
    /\ \E ok \in BOOLEAN :
        LET fd == Unwrap(procs[p].dev_null)
            r  == [procs[p] EXCEPT !.fdt[fd] = "closed"]
        IN  procs' = [procs EXCEPT ![p] =
              IF ok
              THEN Advance(r, Event(p, "close_dev_null", TRUE, Decimal(fd)))
              ELSE Fail(r, Event(p, "close_dev_null", FALSE, Decimal(fd)),
                        "failed to close /dev/null")]
    /\ lockHolder' = LockAfter(lockHolder, procs')
    /\ UNCHANGED <<config, nextPid, pidFile, ofdOffset>>

-----------------------------------------------------------------------------
(* Process::drop_privileges and Process::set_user_and_group.               *)

\* chroot(path) needs privilege; the path is resolved under the old root.
Chroot(p) ==
    /\ Step(p) = "chroot"
    /\ \E ok \in BOOLEAN :
        /\ ok => procs[p].euid = 0
        /\ LET path == Unwrap(config.chroot)
           IN  procs' = [procs EXCEPT ![p] =
                 IF ok
                 THEN Advance([@ EXCEPT !.root = procs[p].root \o path],
                              Event(p, "chroot", TRUE, path))
                 ELSE Fail(@, Event(p, "chroot", FALSE, path), "cannot chroot")]
    /\ UNCHANGED <<config, nextPid, pidFile, ofdOffset, lockHolder>>

\* initgroups(&user.c_name, gid) needs privilege.
InitGroups(p) ==
    /\ Step(p) = "initgroups"
    /\ \E ok \in BOOLEAN :
        /\ ok => procs[p].euid = 0
        /\ LET user == Unwrap(config.user)
               ev   == Event(p, "initgroups", ok, Decimal(TargetGid(config)))
           IN  procs' = [procs EXCEPT ![p] =
                 IF ok
                 THEN Advance([@ EXCEPT !.groups = user.name], ev)
                 ELSE Fail(@, ev, "failed to initialize the group access list")]
    /\ UNCHANGED <<config, nextPid, pidFile, ofdOffset, lockHolder>>

\* setresgid(gid, gid, gid): an unprivileged process may only choose among
\* its current real, effective and saved ids.
SetResGid(p) ==
    /\ Step(p) = "setresgid"
    /\ \E ok \in BOOLEAN :
        /\ ok => \/ procs[p].euid = 0
                 \/ TargetGid(config) \in {procs[p].rgid, procs[p].egid, procs[p].sgid}
        /\ LET gid == TargetGid(config)
               ev  == Event(p, "setresgid", ok, Decimal(gid))
           IN  procs' = [procs EXCEPT ![p] =
                 IF ok
                 THEN Advance([@ EXCEPT !.rgid = gid, !.egid = gid, !.sgid = gid], ev)
                 ELSE Fail(@, ev, "failed to set group ID")]
    /\ UNCHANGED <<config, nextPid, pidFile, ofdOffset, lockHolder>>

\* setresuid(user.uid, user.uid, user.uid)
SetResUid(p) ==
    /\ Step(p) = "setresuid"
    /\ \E ok \in BOOLEAN :
        /\ ok => \/ procs[p].euid = 0
                 \/ Unwrap(config.user).uid \in {procs[p].ruid, procs[p].euid, procs[p].suid}
        /\ LET uid == Unwrap(config.user).uid
               ev  == Event(p, "setresuid", ok, Decimal(uid))
           IN  procs' = [procs EXCEPT ![p] =
                 IF ok
                 THEN Advance([@ EXCEPT !.ruid = uid, !.euid = uid, !.suid = uid], ev)
                 ELSE Fail(@, ev, "failed to set user ID")]
    /\ UNCHANGED <<config, nextPid, pidFile, ofdOffset, lockHolder>>

\* Mutant: the pid is taken when the launch starts, before any fork.
getpid_at_launch(p) == FirstPid + procs[p].inst - 1

\* getpid() in process p.
getpid(p) == p

\* Process::write_pid_file: format!("{}", getpid()) is written through the
\* descriptor Process.pid_file holds, at its description's offset.
WritePidFile(p) ==
    /\ Step(p) = "write_pid_file"
    /\ IF IsSome(procs[p].pid_file)
       THEN \E ok \in BOOLEAN :
            LET fd     == Unwrap(procs[p].pid_file)
                target == procs[p].fdt[fd]
                pid    == Decimal(getpid(p))
                launch == procs[p].inst
                ev     == Event(p, "write_pid_file", ok, pid)
            IN  /\ ok => target # "closed"
                /\ procs' = [procs EXCEPT ![p] =
                       IF ok THEN Advance(@, ev)
                       ELSE Fail(@, ev, "failed to write PID to PID file")]
                /\ IF ok /\ target = "file"
                   THEN /\ pidFile' = WriteAt(pidFile, ofdOffset[launch], pid)
                        /\ ofdOffset' = [ofdOffset EXCEPT ![launch] = @ + Len(pid)]
                   ELSE UNCHANGED <<pidFile, ofdOffset>>
       ELSE /\ procs' = [procs EXCEPT ![p].pc = @ + 1]
            /\ UNCHANGED <<pidFile, ofdOffset>>
    /\ UNCHANGED <<config, nextPid, lockHolder>>

-----------------------------------------------------------------------------
(* The application around the two calls.                                   *)

\* The method reaches its final Ok(()).
Return(p) ==
    /\ procs[p].state = "running"
    /\ procs[p].pc > Len(Program(p))
    /\ procs' = [procs EXCEPT ![p].state = "ok"]
    /\ UNCHANGED <<config, nextPid, pidFile, ofdOffset, lockHolder>>

\* process.drop_privileges()? after a call that returned Ok.
CallDropPrivileges(p) ==
    /\ procs[p].state = "ok"
    /\ procs[p].drops < MaxDropCalls
    /\ procs' = [procs EXCEPT ![p] =
          [@ EXCEPT !.call = "drop_privileges", !.state = "running",
                    !.pc = 1, !.drops = @ + 1]]
    /\ UNCHANGED <<config, nextPid, pidFile, ofdOffset, lockHolder>>

\* A call returned Err(Failed): the caller terminates, ExitError::exit().
ExitOnError(p) ==
    /\ procs[p].state = "err"
    /\ procs' = [procs EXCEPT ![p] = Exited(p, @, 1)]
    /\ lockHolder' = LockAfter(lockHolder, procs')
    /\ UNCHANGED <<config, nextPid, pidFile, ofdOffset>>

-----------------------------------------------------------------------------
(* Process::adjust_path, called by the application.                        *)

PathNames == {"jail", "etc", ".."}

\* The paths adjust_path is called with: absolute and relative ones, under
\* the chroot directory, beside it and above it.
PathInputs ==
    {PathOf(abs, comps) :
        abs \in BOOLEAN,
        comps \in UNION {[1..n -> PathNames] : n \in 0..MaxPathLen}}

AdjustPath(p) ==
    /\ procs[p].state = "running"
    /\ \E path \in PathInputs :
          procs' = [procs EXCEPT ![p].adjusted =
                       Some([path |-> path, result |-> adjust_path(config, path)])]
    /\ UNCHANGED <<config, nextPid, pidFile, ofdOffset, lockHolder>>

-----------------------------------------------------------------------------
(* EnvSockets: the sockets a launcher passed to the process.  Strings of   *)
(* the environment are sequences of characters.                            *)

\* What a descriptor refers to, for the descriptors that are sockets:
\* the address family and address getsockname(2) reports and the type
\* getsockopt(SO_TYPE) reports.
SocketTable ==
    ("tcp:8080" :> [family |-> "inet", addr |-> "127.0.0.1:8080", type |-> "Stream"])
    @@ ("tcp:9090" :> [family |-> "inet", addr |-> "127.0.0.1:9090", type |-> "Stream"])
    @@ ("udp:8080" :> [family |-> "inet", addr |-> "127.0.0.1:8080", type |-> "Datagram"])
    @@ ("raw:8080" :> [family |-> "inet", addr |-> "127.0.0.1:8080", type |-> "Raw"])
    @@ ("unix" :> [family |-> "unix", addr |-> "/run/daemon.sock", type |-> "Stream"])

SocketAddrs == {"127.0.0.1:8080", "127.0.0.1:9090"}

SocketTypes == {"Udp", "Tcp"}

\* What descriptor fd refers to; a number beyond the table is not open.
FdAt(fdt, fd) == IF fd \in Fds THEN fdt[fd] ELSE "closed"

\* to_socket_addr: only IPv4 and IPv6 addresses convert to a SocketAddr.
to_socket_addr(sock) == IF sock.family \in {"inet", "inet6"} THEN Some(sock.addr) ELSE None

\* SocketInfo::from_fd: getsockname fails on what is not an open socket.
from_fd(fdt, fd) ==
    LET d == FdAt(fdt, fd)
    IN  IF d \notin DOMAIN SocketTable THEN None
        ELSE IF to_socket_addr(SocketTable[d]) = None THEN None
        ELSE IF SocketTable[d].type \notin {"Datagram", "Stream"} THEN None
        ELSE Some([socket_type |-> IF SocketTable[d].type = "Datagram"
                                   THEN "Udp" ELSE "Tcp",
                   socket_addr |-> Unwrap(to_socket_addr(SocketTable[d])),
                   raw_fd      |-> fd])

Digits == {Digit(d) : d \in 0..9}

DigitValue(c) == CHOOSE d \in 0..9 : Digit(d) = c

\* usize::MAX of a 64-bit target, in decimal digits.
UsizeMaxDigits ==
    <<"1", "8", "4", "4", "6", "7", "4", "4", "0", "7",
      "3", "7", "0", "9", "5", "5", "1", "6", "1", "5">>

RECURSIVE StripZeros(_)
StripZeros(ds) == IF Len(ds) > 1 /\ ds[1] = "0" THEN StripZeros(Tail(ds)) ELSE ds

\* a <= b for digit strings of the same length.
RECURSIVE DigitsLeq(_, _)
DigitsLeq(a, b) ==
    IF a = <<>> THEN TRUE
    ELSE IF a[1] # b[1] THEN DigitValue(a[1]) < DigitValue(b[1])
    ELSE DigitsLeq(Tail(a), Tail(b))

FitsUsize(ds) ==
    LET n == StripZeros(ds)
    IN  \/ Len(n) < Len(UsizeMaxDigits)
        \/ Len(n) = Len(UsizeMaxDigits) /\ DigitsLeq(n, UsizeMaxDigits)

\* The value of a digit string, or ParseCap if it is more than that.
RECURSIVE CappedValue(_, _)
CappedValue(ds, acc) ==
    IF ds = <<>> THEN acc
    ELSE LET v == acc * 10 + DigitValue(ds[1])
         IN  CappedValue(Tail(ds), IF v > ParseCap THEN ParseCap ELSE v)

\* str::parse::<usize>: an optional + and at least one digit, no other
\* character, and a value that fits; None for Err.
ParseUsize(s) ==
    LET ds == IF s # <<>> /\ s[1] = "+" THEN Tail(s) ELSE s
    IN  IF ds # <<>> /\ (\A i \in 1..Len(ds) : ds[i] \in Digits) /\ FitsUsize(ds)
        THEN Some(CappedValue(ds, 0))
        ELSE None

\* Mutant: the count is not clamped.
ClampNone(n, lo, hi) == n

\* Ord::clamp
Clamp(n, lo, hi) == IF n < lo THEN lo ELSE IF n > hi THEN hi ELSE n

\* Mutant: the inventory is read whatever LISTEN_PID says.
PidMatchesAlways(own_pid, var_pid) == TRUE

\* Mutant: LISTEN_PID is only checked for being set.
PidMatchesNonEmpty(own_pid, var_pid) == var_pid # <<>>

\* !var_pid.is_empty() && own_pid == var_pid
PidMatches(own_pid, var_pid) == var_pid # <<>> /\ own_pid = var_pid

\* Option::unwrap_or_default of a String.
UnwrapOrDefault(o) == IF IsSome(o) THEN Unwrap(o) ELSE <<>>

\* The descriptors EnvSockets::from_env passes to SocketInfo::from_fd, in
\* the order it does.
ProbedFds(own_pid, environ) ==
    IF PidMatches(own_pid, UnwrapOrDefault(environ.LISTEN_PID))
       /\ IsSome(environ.LISTEN_FDS)
       /\ IsSome(ParseUsize(Unwrap(environ.LISTEN_FDS)))
    THEN LET num_fds == Clamp(Unwrap(ParseUsize(Unwrap(environ.LISTEN_FDS))),
                              0, MAX_LISTEN_FDS)
         IN  [i \in 1..num_fds |-> SD_LISTEN_FDS_START + i - 1]
    ELSE <<>>

\* The `fds` EnvSockets::from_env builds: the SocketInfo of every probed
\* descriptor that has one, in the order of the descriptors.
InventoryOf(fdt, probed) ==
    LET kept == SelectSeq(probed, LAMBDA fd : IsSome(from_fd(fdt, fd)))
    IN  [i \in 1..Len(kept) |-> Unwrap(from_fd(fdt, kept[i]))]

\* The application may call EnvSockets::from_env before it calls
\* setup_daemon and after setup_daemon has returned Ok, before it calls
\* drop_privileges.
BeforeDrop(p) ==
    /\ procs[p].call = "setup_daemon"
    /\ \/ procs[p].state = "running" /\ procs[p].pc = 1 /\ procs[p].trace = <<>>
       \/ procs[p].state = "ok"

\* EnvSockets::from_env(unset_environment)
FromEnv(p) ==
    /\ BeforeDrop(p)
    /\ procs[p].sockets = None
    /\ \E unset_environment \in BOOLEAN :
          LET r       == procs[p]
              own_pid == Decimal(getpid(p))
              probed  == ProbedFds(own_pid, r.environ)
              fds     == InventoryOf(r.fdt, probed)
          IN  procs' = [procs EXCEPT ![p] =
                  [r EXCEPT
                      !.sockets  = Some(fds),
                      !.environ  = IF unset_environment
                                   THEN [LISTEN_PID |-> None, LISTEN_FDS |-> None]
                                   ELSE @,
                      !.from_env = Some([unset_environment |-> unset_environment,
                                         own_pid     |-> own_pid,
                                         environ     |-> r.environ,
                                         probed      |-> probed,
                                         fds         |-> fds,
                                         after_setup |-> r.state = "ok"])]]
    /\ UNCHANGED <<config, nextPid, pidFile, ofdOffset, lockHolder>>

\* EnvSockets::is_empty
is_empty(fds) == fds = <<>>

\* EnvSockets::has_udp and EnvSockets::has_tcp
has(fds, ty, addr) ==
    \E i \in 1..Len(fds) : fds[i].socket_type = ty /\ fds[i].socket_addr = addr

\* The closures of remove and pop: the kind is ty and, in remove, the
\* address is the one given.
Matches(v, ty, addr) ==
    v.socket_type = ty /\ (IsSome(addr) => v.socket_addr = Unwrap(addr))

\* Iterator::position: the first index that matches, 0 for None.
Position(fds, ty, addr) ==
    IF \E i \in 1..Len(fds) : Matches(fds[i], ty, addr)
    THEN CHOOSE i \in 1..Len(fds) :
            Matches(fds[i], ty, addr) /\ \A j \in 1..(i - 1) : ~Matches(fds[j], ty, addr)
    ELSE 0

\* Mutant: Vec::swap_remove, which moves the last element to the gap.
SwapRemoveAt(fds, idx) ==
    IF idx = Len(fds) THEN SubSeq(fds, 1, idx - 1)
    ELSE SubSeq(fds, 1, idx - 1) \o <<fds[Len(fds)]>> \o SubSeq(fds, idx + 1, Len(fds) - 1)

\* Mutant: the element found stays in the vector.
RemoveNothing(fds, idx) == fds

\* Vec::remove
RemoveAt(fds, idx) == SubSeq(fds, 1, idx - 1) \o SubSeq(fds, idx + 1, Len(fds))

\* Mutant: no socket is ever returned.
finalize_never(info, ok) == None

\* Mutant: the socket is returned whether or not fcntl succeeded.
finalize_unchecked(info, ok) == Some(info.raw_fd)

\* SocketInfo::finalize, given whether fcntl(F_SETFD, FD_CLOEXEC) succeeded.
finalize(info, ok) == IF ok THEN Some(info.raw_fd) ELSE None

\* The application holds an EnvSockets and goes on calling it.
SockReady(p) ==
    /\ procs[p].state \in {"running", "ok"}
    /\ IsSome(procs[p].sockets)
    /\ procs[p].nops < MaxSockOps

Called(r, op, ty, addr, answer, handle) ==
    [r EXCEPT !.nops = @ + 1,
              !.last = Some([op |-> op, ty |-> ty, addr |-> addr,
                             before |-> Unwrap(r.sockets),
                             answer |-> answer, handle |-> handle])]

IsEmpty(p) ==
    /\ SockReady(p)
    /\ procs' = [procs EXCEPT ![p] =
          Called(@, "is_empty", "", "", is_empty(Unwrap(@.sockets)), None)]
    /\ UNCHANGED <<config, nextPid, pidFile, ofdOffset, lockHolder>>

Has(p) ==
    /\ SockReady(p)
    /\ \E ty \in SocketTypes, addr \in SocketAddrs :
          procs' = [procs EXCEPT ![p] =
              Called(@, "has", ty, addr, has(Unwrap(@.sockets), ty, addr), None)]
    /\ UNCHANGED <<config, nextPid, pidFile, ofdOffset, lockHolder>>

\* self.fds.remove(idx).finalize() at the position found, if one was:
\* `answer` says whether one was, `handle` is what the caller gets.
RemoveAndFinalize(r, op, ty, addr, idx, ok) ==
    LET fds     == Unwrap(r.sockets)
        info    == fds[idx]
        handle  == IF idx # 0 THEN finalize(info, ok) ELSE None
        cloexec == IF idx # 0 /\ ok THEN r.cloexec \cup {info.raw_fd} ELSE r.cloexec
    IN  [Called(r, op, ty, addr, idx # 0, handle) EXCEPT
            !.sockets = IF idx # 0 THEN Some(RemoveAt(fds, idx)) ELSE @,
            !.cloexec = cloexec,
            !.taken   = IF IsSome(handle)
                        THEN Append(@, [op          |-> op,
                                        raw_fd      |-> Unwrap(handle),
                                        socket_type |-> info.socket_type,
                                        socket_addr |-> info.socket_addr,
                                        cloexec     |-> Unwrap(handle) \in cloexec])
                        ELSE @]

\* fcntl(2) fails on a descriptor that is not open.
FcntlOutcomes(r, idx) ==
    {ok \in BOOLEAN :
        ok => (idx # 0 /\ FdAt(r.fdt, Unwrap(r.sockets)[idx].raw_fd) # "closed")}

\* EnvSockets::take_udp and EnvSockets::take_tcp, through EnvSockets::remove
Take(p) ==
    /\ SockReady(p)
    /\ \E ty \in SocketTypes, addr \in SocketAddrs :
          LET idx == Position(Unwrap(procs[p].sockets), ty, Some(addr))
          IN  \E ok \in FcntlOutcomes(procs[p], idx) :
                  procs' = [procs EXCEPT ![p] =
                               RemoveAndFinalize(@, "take", ty, addr, idx, ok)]
    /\ UNCHANGED <<config, nextPid, pidFile, ofdOffset, lockHolder>>

\* EnvSockets::pop_udp and EnvSockets::pop_tcp, through EnvSockets::pop
Pop(p) ==
    /\ SockReady(p)
    /\ \E ty \in SocketTypes :
          LET idx == Position(Unwrap(procs[p].sockets), ty, None)
          IN  \E ok \in FcntlOutcomes(procs[p], idx) :
                  procs' = [procs EXCEPT ![p] =
                               RemoveAndFinalize(@, "pop", ty, "", idx, ok)]
    /\ UNCHANGED <<config, nextPid, pidFile, ofdOffset, lockHolder>>

-----------------------------------------------------------------------------
(* Logging: the global logger of a process and the threads that use it.    *)

LogLevels == {"Warn", "Debug"}

LogTargets == {"Default", "Syslog", "Stderr", "File"}

\* Dispatch::new: the backend made for a target.
BackendOf(target, daemon) ==
    CASE target = "Default" -> IF daemon THEN "syslog" ELSE "stderr"
      [] target = "Syslog"  -> "syslog"
      [] target = "File"    -> "file"
      [] target = "Stderr"  -> IF daemon THEN "stderr_timestamp" ELSE "stderr"

\* Connecting to syslog and opening the log file can fail.
CanFailToOpen(backend) == backend \in {"syslog", "file"}

\* A thread of a live process is between two calls.
ThreadIdle(p, t) ==
    /\ procs[p].state \in {"running", "ok"}
    /\ procs[p].log.threads[t].pc = "idle"

ThreadAt(p, t, pc) ==
    /\ procs[p].state \in {"running", "ok"}
    /\ procs[p].log.threads[t].pc = pc

\* A switch_logging call is over: what it came to, and the logger and the
\* maximum level it left.
Switched(l, t, outcome) ==
    Append(l.switches, [by |-> t, outcome |-> outcome,
                        inner |-> l.inner, max_level |-> l.max_level])

\* Logger::switch_logging, up to Dispatch::new(self, daemon)?  The
\* application passes the flag it passes to setup_daemon.
SwitchNew(p, t) ==
    /\ ThreadIdle(p, t)
    /\ procs[p].log.threads[t].calls < MaxLogCalls
    /\ \E ok \in BOOLEAN :
          LET l       == procs[p].log
              backend == BackendOf(l.logger.target, procs[p].background)
              logger  == [target |-> backend, level |-> l.logger.level, by |-> t]
          IN  /\ ~ok => CanFailToOpen(backend)
              /\ procs' = [procs EXCEPT ![p].log =
                    IF ok
                    THEN [l EXCEPT !.threads[t] =
                            [pc |-> "switch", calls |-> @.calls + 1, logger |-> Some(logger)]]
                    ELSE [l EXCEPT !.threads[t].calls = @ + 1,
                                   !.switches = Switched(l, t, "err")]]
    /\ UNCHANGED <<config, nextPid, pidFile, ofdOffset, lockHolder>>

\* Mutant: the new logger replaces the one installed.
OnceLockOverwrite(inner, logger) == [ok |-> TRUE, inner |-> Some(logger)]

\* OnceLock::set: Err if the cell is set already.
OnceLockSet(inner, logger) ==
    IF inner = None
    THEN [ok |-> TRUE, inner |-> Some(logger)]
    ELSE [ok |-> FALSE, inner |-> inner]

\* GLOBAL_LOGGER.switch(logger): a panic if inner.set(logger) is Err.  A
\* panic ends the thread and, in the main thread, the process, with exit
\* code 101.
SwitchSet(p, t) ==
    /\ ThreadAt(p, t, "switch")
    /\ LET l   == procs[p].log
           set == OnceLockSet(l.inner, Unwrap(l.threads[t].logger))
           set_log == [l EXCEPT !.inner = set.inner,
                                !.installs = @ + 1,
                                !.threads[t].pc = "set_max_level"]
           panic_log == [l EXCEPT !.threads[t].pc = "panicked",
                                  !.threads[t].logger = None,
                                  !.switches = Switched(l, t, "panic")]
       IN  procs' = [procs EXCEPT ![p] =
               IF set.ok THEN [@ EXCEPT !.log = set_log]
               ELSE IF t = MainThread
               THEN Exited(p, [@ EXCEPT !.log = panic_log], 101)
               ELSE [@ EXCEPT !.log = panic_log]]
    /\ lockHolder' = LockAfter(lockHolder, procs')
    /\ UNCHANGED <<config, nextPid, pidFile, ofdOffset>>

\* log::set_max_level(self.level); Ok(())
SetMaxLevel(p, t) ==
    /\ ThreadAt(p, t, "set_max_level")
    /\ LET l     == procs[p].log
           level == Unwrap(l.threads[t].logger).level
           done  == [l EXCEPT !.max_level = level]
       IN  procs' = [procs EXCEPT ![p].log =
               [done EXCEPT !.threads[t].pc = "idle",
                            !.threads[t].logger = None,
                            !.switches = Switched(done, t, "ok")]]
    /\ UNCHANGED <<config, nextPid, pidFile, ofdOffset, lockHolder>>

\* GlobalLogger::log: without a logger installed the message goes to
\* stderr under the lock of stderr; with one, to Dispatch::log.
Log(p, t) ==
    /\ ThreadIdle(p, t)
    /\ procs[p].log.threads[t].calls < MaxLogCalls
    /\ procs' = [procs EXCEPT ![p].log.threads[t] =
          [@ EXCEPT !.calls = @ + 1,
                    !.pc = IF procs[p].log.inner = None THEN "idle" ELSE "lock"]]
    /\ UNCHANGED <<config, nextPid, pidFile, ofdOffset, lockHolder>>

\* Mutant: the target is used without waiting for its mutex.
MutexFreeAlways(mutex) == TRUE

MutexFree(mutex) == mutex = 0

\* Dispatch::target: self.target.lock()
LogLock(p, t) ==
    /\ ThreadAt(p, t, "lock")
    /\ MutexFree(procs[p].log.mutex)
    /\ procs' = [procs EXCEPT ![p].log =
          [@ EXCEPT !.mutex = t, !.threads[t].pc = "write"]]
    /\ UNCHANGED <<config, nextPid, pidFile, ofdOffset, lockHolder>>

\* Dispatch::try_log: the write to the backend, with the guard held.
\* Writing to stderr never fails.
LogWrite(p, t) ==
    /\ ThreadAt(p, t, "write")
    /\ \E ok \in BOOLEAN :
          /\ ~ok => CanFailToOpen(Unwrap(procs[p].log.inner).target)
          /\ procs' = [procs EXCEPT ![p].log.threads[t].pc =
                IF ok THEN "unlock" ELSE "unlock_failed"]
    /\ UNCHANGED <<config, nextPid, pidFile, ofdOffset, lockHolder>>

\* The guard of try_log is dropped: back in the caller of log, or on to
\* Dispatch::log_failure.
LogUnlock(p, t) ==
    /\ \/ ThreadAt(p, t, "unlock")
       \/ ThreadAt(p, t, "unlock_failed")
    /\ procs' = [procs EXCEPT ![p].log =
          [@ EXCEPT !.mutex = 0,
                    !.threads[t].pc = IF @ = "unlock" THEN "idle" ELSE "log_failure"]]
    /\ UNCHANGED <<config, nextPid, pidFile, ofdOffset, lockHolder>>

\* Dispatch::log_failure: a message to stderr, with the target locked
\* again, and std::process::exit(1).
LogFailure(p, t) ==
    /\ ThreadAt(p, t, "log_failure")
    /\ MutexFree(procs[p].log.mutex)
    /\ procs' = [procs EXCEPT ![p] = Exited(p, @, 1)]
    /\ lockHolder' = LockAfter(lockHolder, procs')
    /\ UNCHANGED <<config, nextPid, pidFile, ofdOffset>>

-----------------------------------------------------------------------------
(* Specifications.                                                         *)

\* The PID file before the launch: left over from an earlier run.
StalePidFile == <<"4", "2">>

\* One launch of the daemon, with any configuration.
Init ==
    /\ config \in Configs
    /\ \E background \in BOOLEAN, fdt \in InitialFdTables :
          procs = (FirstPid :> InitialProc(1, FirstPid, background, fdt))
    /\ nextPid = FirstPid + 1
    /\ pidFile = StalePidFile
    /\ ofdOffset = [l \in Launches |-> 0]
    /\ lockHolder = 0

Next ==
    \/ \E p \in Pids : OpenPidFile(p)
    \/ \E p \in Pids : LockPidFile(p)
    \/ \E p \in Pids : PerformFork(p)
    \/ \E p \in Pids : ExitParent(p)
    \/ \E p \in Pids : Setsid(p)
    \/ \E p \in Pids : SetCurrentDir(p)
    \/ \E p \in Pids : Umask(p)
    \/ \E p \in Pids : OpenDevNull(p)
    \/ \E p \in Pids : Dup2(p)
    \/ \E p \in Pids : CloseDevNull(p)
    \/ \E p \in Pids : Chroot(p)
    \/ \E p \in Pids : InitGroups(p)
    \/ \E p \in Pids : SetResGid(p)
    \/ \E p \in Pids : SetResUid(p)
    \/ \E p \in Pids : WritePidFile(p)
    \/ \E p \in Pids : Return(p)
    \/ \E p \in Pids : CallDropPrivileges(p)
    \/ \E p \in Pids : ExitOnError(p)

Spec == Init /\ [][Next]_vars

\* Two independent launches of the same daemon, so of the same
\* configuration and PID-file path, each from a process with all three
\* standard streams on the terminal.
RivalConfigs ==
    {c \in Configs : IsSome(c.pid_file) /\ c.working_dir = None}

TtyFdTable == [fd \in Fds |-> IF fd <= 2 THEN "tty" ELSE "closed"]

InitRival ==
    /\ config \in RivalConfigs
    /\ \E b1 \in BOOLEAN, b2 \in BOOLEAN :
          procs = (FirstPid :> InitialProc(1, FirstPid, b1, TtyFdTable))
                  @@ (FirstPid + 1 :> InitialProc(2, FirstPid + 1, b2, TtyFdTable))
    /\ nextPid = FirstPid + 2
    /\ pidFile = StalePidFile
    /\ ofdOffset = [l \in Launches |-> 0]
    /\ lockHolder = 0

SpecRival == InitRival /\ [][Next]_vars

\* The chroot directories adjust_path is checked with: none, the root
\* directory itself, one directory and a directory inside it.
PathChroots == {None, Some(RootPath), Some(ChrootDir), Some(ChrootDir \o <<"etc">>)}

\* A process that only calls adjust_path.
InitPath ==
    /\ \E ch \in PathChroots :
          config = [pid_file |-> None, working_dir |-> None, chroot |-> ch,
                    user |-> None, group |-> None]
    /\ procs = (FirstPid :> InitialProc(1, FirstPid, FALSE, TtyFdTable))
    /\ nextPid = FirstPid + 1
    /\ pidFile = StalePidFile
    /\ ofdOffset = [l \in Launches |-> 0]
    /\ lockHolder = 0

NextPath == \E p \in Pids : AdjustPath(p)

SpecPath == InitPath /\ [][NextPath]_vars

\* What a launcher may have left in LISTEN_PID: nothing, the empty
\* string, the pid of the process it started, another pid.
ListenPidValues ==
    {None, Some(<<>>), Some(Decimal(FirstPid)), Some(Decimal(FirstPid + 1))}

\* What it may have left in LISTEN_FDS: nothing, the empty string, counts
\* up to and beyond MAX_LISTEN_FDS and beyond usize::MAX, and strings that
\* are no count.
ListenFdsValues ==
    {None, Some(<<>>), Some(<<"0">>), Some(<<"2">>), Some(<<"+", "3">>),
     Some(<<"1", "0", "0", "0">>), Some([i \in 1..21 |-> "9"]),
     Some(<<"-", "1">>), Some(<<"2", "x">>)}

\* The descriptor tables of a process started with sockets: the standard
\* streams on the terminal and descriptors 3 to 5 as the launcher left
\* them, two of them possibly bound to the same address.
SocketFdTables ==
    {t \in [Fds -> DOMAIN SocketTable \cup {"tty", "closed"}] :
        /\ \A fd \in 0..2 : t[fd] = "tty"
        /\ t[3] \in {"tcp:8080", "udp:8080", "unix"}
        /\ t[4] \in {"tcp:8080", "tcp:9090", "raw:8080", "closed"}
        /\ t[5] \in {"tcp:9090", "closed"}
        /\ \A fd \in Fds : fd > 5 => t[fd] = "closed"}

NoConfig ==
    [pid_file |-> None, working_dir |-> None, chroot |-> None,
     user |-> None, group |-> None]

\* A process started with sockets that builds its EnvSockets and calls it,
\* before it calls setup_daemon.
InitEnv ==
    /\ config = NoConfig
    /\ \E pid \in ListenPidValues, n \in ListenFdsValues, fdt \in SocketFdTables :
          procs = (FirstPid :>
                     [InitialProc(1, FirstPid, FALSE, fdt) EXCEPT
                         !.environ = [LISTEN_PID |-> pid, LISTEN_FDS |-> n]])
    /\ nextPid = FirstPid + 1
    /\ pidFile = StalePidFile
    /\ ofdOffset = [l \in Launches |-> 0]
    /\ lockHolder = 0

NextEnv ==
    \/ \E p \in Pids : FromEnv(p)
    \/ \E p \in Pids : IsEmpty(p)
    \/ \E p \in Pids : Has(p)
    \/ \E p \in Pids : Take(p)
    \/ \E p \in Pids : Pop(p)

SpecEnv == InitEnv /\ [][NextEnv]_vars

\* A daemon with every option configured, started by a launcher that
\* passed it two sockets, as descriptors 3 and 4, and set LISTEN_PID to
\* its pid.  It builds its EnvSockets before setup_daemon or after it.
FullConfig ==
    [pid_file |-> Some(PidPath), working_dir |-> None, chroot |-> Some(ChrootDir),
     user |-> Some(TheUser), group |-> Some(TheGroup)]

PassedFdTable ==
    [fd \in Fds |-> IF fd <= 2 THEN "tty"
                    ELSE IF fd = 3 THEN "tcp:8080"
                    ELSE IF fd = 4 THEN "udp:8080"
                    ELSE "closed"]

InitDaemonEnv ==
    /\ config = FullConfig
    /\ \E background \in BOOLEAN :
          procs = (FirstPid :>
                     [InitialProc(1, FirstPid, background, PassedFdTable) EXCEPT
                         !.environ = [LISTEN_PID |-> Some(Decimal(FirstPid)),
                                      LISTEN_FDS |-> Some(<<"2">>)]])
    /\ nextPid = FirstPid + 1
    /\ pidFile = StalePidFile
    /\ ofdOffset = [l \in Launches |-> 0]
    /\ lockHolder = 0

NextDaemonEnv ==
    \/ Next
    \/ \E p \in Pids : FromEnv(p)

SpecDaemonEnv == InitDaemonEnv /\ [][NextDaemonEnv]_vars

\* A process that has called Logger::init_logging and made a Logger from
\* its configuration, whose threads log and call switch_logging on it.
InitLog ==
    /\ config = NoConfig
    /\ \E background \in BOOLEAN, target \in LogTargets, level \in LogLevels :
          procs = (FirstPid :>
                     [InitialProc(1, FirstPid, background, TtyFdTable) EXCEPT
                         !.log.logger = [target |-> target, level |-> level]])
    /\ nextPid = FirstPid + 1
    /\ pidFile = StalePidFile
    /\ ofdOffset = [l \in Launches |-> 0]
    /\ lockHolder = 0

NextLog ==
    \/ \E p \in Pids, t \in Threads : SwitchNew(p, t)
    \/ \E p \in Pids, t \in Threads : SwitchSet(p, t)
    \/ \E p \in Pids, t \in Threads : SetMaxLevel(p, t)
    \/ \E p \in Pids, t \in Threads : Log(p, t)
    \/ \E p \in Pids, t \in Threads : LogLock(p, t)
    \/ \E p \in Pids, t \in Threads : LogWrite(p, t)
    \/ \E p \in Pids, t \in Threads : LogUnlock(p, t)
    \/ \E p \in Pids, t \in Threads : LogFailure(p, t)

SpecLog == InitLog /\ [][NextLog]_vars

-----------------------------------------------------------------------------
(* Vocabulary of the properties.                                           *)

\* The process is back in its caller from a call of the method.
Returned(p, method) == procs[p].call = method /\ procs[p].state \in {"ok", "err"}

ReturnedOk(p, method) == procs[p].call = method /\ procs[p].state = "ok"

ReturnedErr(p, method) == procs[p].call = method /\ procs[p].state = "err"

\* Positions of a trace at which a call named in ops was made.
Calls(p, ops) == {i \in 1..Len(procs[p].trace) : procs[p].trace[i].op \in ops}

Succeeded(p, i, op) ==
    i \in 1..Len(procs[p].trace) /\ procs[p].trace[i].op = op /\ procs[p].trace[i].ok

Failed(p, i, op) ==
    i \in 1..Len(procs[p].trace) /\ procs[p].trace[i].op = op /\ ~procs[p].trace[i].ok

IdentityCalls == {"initgroups", "setresgid", "setresuid"}

DaemonizeCalls ==
    {"fork", "setsid", "set_current_dir", "umask", "open_dev_null",
     "dup2_stdin", "dup2_stdout", "dup2_stderr", "close_dev_null"}

\* setup_daemon has returned Ok in process p.
SetupDone(p) == procs[p].call = "drop_privileges" \/ ReturnedOk(p, "setup_daemon")

\* Only the leader of a session can make a terminal its controlling
\* terminal.
CanAcquireCtty(p) == procs[p].sid = p

RECURSIVE Repeat(_, _)
Repeat(seq, k) == IF k = 0 THEN <<>> ELSE seq \o Repeat(seq, k - 1)

\* The launches of which a live process holds the PID-file guard.
Holders ==
    {l \in Launches :
        \E p \in Pids :
            /\ procs[p].inst = l
            /\ procs[p].state # "exited"
            /\ IsSome(procs[p].pid_file)
            /\ procs[p].fdt[Unwrap(procs[p].pid_file)] = "file"}

\* The three changes drop_privileges makes, read off the process.
RootChanged(p) == procs[p].root = Unwrap(config.chroot)

GidChanged(p) == procs[p].egid = TargetGid(config)

UidChanged(p) == procs[p].euid = Unwrap(config.user).uid

ChrootAndUser == IsSome(config.chroot) /\ IsSome(config.user)

-----------------------------------------------------------------------------
(* C1 *)

\* C1, as stated: with a chroot and a user configured, drop_privileges never
\* returns to its caller, with Ok or with Err, while only part of the root
\* change, the gid change and the uid change has been applied.
C1_NoPartialOnReturn ==
    ChrootAndUser =>
        \A p \in Pids :
            Returned(p, "drop_privileges") =>
                \/ RootChanged(p) /\ GidChanged(p) /\ UidChanged(p)
                \/ ~RootChanged(p) /\ ~GidChanged(p) /\ ~UidChanged(p)

\* C1, amended: drop_privileges returns Ok only with the root, the gid and
\* the uid all changed; a failing step makes it return Err to its caller
\* with the changes made so far left in place, which are a prefix of the
\* order root, gid, uid.
C1_OkAllErrPrefix ==
    ChrootAndUser =>
        \A p \in Pids :
            /\ ReturnedOk(p, "drop_privileges") =>
                   RootChanged(p) /\ GidChanged(p) /\ UidChanged(p)
            /\ ReturnedErr(p, "drop_privileges") =>
                   /\ UidChanged(p) => GidChanged(p)
                   /\ GidChanged(p) => RootChanged(p)

C1_Witness ==
    /\ ChrootAndUser
    /\ \E p \in Pids :
          /\ ReturnedOk(p, "drop_privileges")
          /\ RootChanged(p) /\ GidChanged(p) /\ UidChanged(p)

-----------------------------------------------------------------------------
(* C2 *)

\* C2: with a chroot configured, every identity call (initgroups, setresgid,
\* setresuid) is preceded by a successful chroot, and after a failed chroot
\* no identity call is made.
C2_ChrootBeforeIdentity ==
    IsSome(config.chroot) =>
        \A p \in Pids :
            \A i \in Calls(p, IdentityCalls) :
                /\ \E j \in 1..(i - 1) : Succeeded(p, j, "chroot")
                /\ \A j \in 1..(i - 1) : ~Failed(p, j, "chroot")

C2_Witness ==
    /\ IsSome(config.chroot)
    /\ \E p \in Pids :
          \E i \in Calls(p, {"setresuid"}) : \E j \in 1..(i - 1) : Succeeded(p, j, "chroot")

-----------------------------------------------------------------------------
(* C3 *)

\* C3: every setresgid call directly follows a successful initgroups, and
\* every setresuid call directly follows a successful setresgid: the uid is
\* changed last, and only after both group steps succeeded.
C3_GroupBeforeUser ==
    \A p \in Pids :
        /\ \A i \in Calls(p, {"setresgid"}) : Succeeded(p, i - 1, "initgroups")
        /\ \A i \in Calls(p, {"setresuid"}) :
              Succeeded(p, i - 1, "setresgid") /\ Succeeded(p, i - 2, "initgroups")
        /\ \A i \in Calls(p, {"initgroups"}) :
              i > 1 => procs[p].trace[i - 1].op \notin {"setresgid", "setresuid"}
                       \/ procs[p].trace[i - 1].ok

C3_Witness ==
    \E p \in Pids : \E i \in Calls(p, {"setresuid"}) :
        Succeeded(p, i, "setresuid") /\ Succeeded(p, i - 1, "setresgid")

-----------------------------------------------------------------------------
(* C4 *)

\* C4: of two launches on the same PID-file path at most one holds the guard
\* at any time; a flock call made while the other launch holds the lock
\* fails, and a failed flock call was made while the other launch held the
\* lock and makes setup_daemon return Err with the lock diagnostic (not the
\* creation diagnostic), leaving the process without a guard.
C4_OneGuard ==
    /\ Cardinality(Holders) <= 1
    /\ \A l \in Holders : lockHolder = l
    /\ \A p \in Pids :
          \A i \in Calls(p, {"flock"}) :
              LET ev     == procs[p].trace[i]
                  others == {Decimal(l) : l \in Launches \ {procs[p].inst}}
              IN  /\ ev.data \in others => ~ev.ok
                  /\ ~ev.ok =>
                        /\ ev.data \in others
                        /\ procs[p].call = "setup_daemon"
                        /\ procs[p].state \in {"err", "exited"}
                        /\ procs[p].state = "exited" => procs[p].exit_code = Some(1)
                        /\ procs[p].pid_file = None
                        /\ procs[p].diag = <<"cannot lock PID file">>

C4_Witness ==
    \E p \in Pids, q \in Pids :
        /\ procs[p].inst # procs[q].inst
        /\ Failed(p, 2, "flock")
        /\ ReturnedErr(p, "setup_daemon")
        /\ procs[q].inst \in Holders

-----------------------------------------------------------------------------
(* C5 *)

\* C5: with a PID file configured, for either value of background, every
\* daemonization call (fork, setsid, chdir, umask, the stream redirection)
\* comes after the PID file was opened and locked successfully, and a
\* process whose open or lock failed makes none of these calls.
C5_PidFileFirst ==
    IsSome(config.pid_file) =>
        \A p \in Pids :
            /\ \A i \in Calls(p, DaemonizeCalls) :
                  /\ Succeeded(p, 1, "open_pid_file")
                  /\ Succeeded(p, 2, "flock")
                  /\ i > 2
            /\ (Failed(p, 1, "open_pid_file") \/ Failed(p, 2, "flock")) =>
                  Calls(p, DaemonizeCalls) = {}

C5_Witness ==
    /\ IsSome(config.pid_file)
    /\ \E p \in Pids, q \in Pids :
          /\ procs[p].background
          /\ Succeeded(p, 2, "flock") /\ Succeeded(p, 3, "fork")
          /\ Failed(q, 2, "flock") /\ Calls(q, DaemonizeCalls) = {}

-----------------------------------------------------------------------------
(* C6 *)

\* C6: a write of the PID is made by a process that forks no more, after
\* both forks of a background setup_daemon, directly after the successful
\* identity switch and chroot of the same drop_privileges call; what is
\* written is the decimal pid of the writing process, so the file never
\* holds the pid of a parent that has exited.
C6_PidWrittenLast ==
    /\ \A p \in Pids :
          \A i \in Calls(p, {"write_pid_file"}) :
              LET ev    == procs[p].trace[i]
                  forks == Calls(p, {"fork"})
                  id    == IF IsSome(config.user) THEN 3 ELSE 0
              IN  /\ ev.by = p
                  /\ ev.data = Decimal(p)
                  /\ procs[p].state # "forked"
                  /\ procs[p].exit_code # Some(0)
                  /\ \A j \in forks : j < i /\ procs[p].trace[j].ok /\ procs[p].trace[j].by # p
                  /\ Cardinality(forks) = IF procs[p].background THEN 2 ELSE 0
                  /\ IsSome(config.user) =>
                        /\ Succeeded(p, i - 1, "setresuid")
                        /\ Succeeded(p, i - 2, "setresgid")
                        /\ Succeeded(p, i - 3, "initgroups")
                  /\ IsSome(config.chroot) => Succeeded(p, i - id - 1, "chroot")
    /\ pidFile \notin {StalePidFile, <<>>} =>
          \E p \in Pids, k \in 1..MaxDropCalls :
              /\ pidFile = Repeat(Decimal(p), k)
              /\ \E i \in Calls(p, {"write_pid_file"}) : procs[p].trace[i].ok
              /\ \A j \in Calls(p, {"fork"}) : procs[p].trace[j].by # p

C6_Witness ==
    \E p \in Pids :
        /\ procs[p].background
        /\ IsSome(config.chroot) /\ IsSome(config.user)
        /\ ReturnedOk(p, "drop_privileges")
        /\ pidFile = Decimal(p)
        /\ \E q \in Pids : procs[q].state = "exited" /\ pidFile # Decimal(q)

-----------------------------------------------------------------------------
(* C7 *)

\* C7: once setup_daemon(true) has returned Ok, the process is not a session
\* leader and so cannot acquire a controlling terminal: its trace is fork,
\* setsid, fork in this order, it is a member of the session its parent
\* created, which is not the launching shell's, and that parent, the
\* session leader, has left through exit(0).
C7_NoControllingTerminal ==
    \A p \in Pids :
        (SetupDone(p) /\ procs[p].background) =>
            LET forks  == Calls(p, {"fork"})
                leader == procs[p].sid
            IN  /\ ~CanAcquireCtty(p)
                /\ leader # ShellSession
                /\ leader \in Pids
                /\ procs[leader].state \in {"forked", "exited"}
                /\ procs[leader].state = "exited" => procs[leader].exit_code = Some(0)
                /\ \E i \in forks, k \in forks :
                      /\ forks = {i, k}
                      /\ Calls(p, {"setsid"}) = {i + 1}
                      /\ k = i + 2
                      /\ Succeeded(p, i, "fork")
                      /\ Succeeded(p, i + 1, "setsid")
                      /\ Succeeded(p, k, "fork")
                      /\ procs[p].trace[i + 1].by = leader
                      /\ procs[p].trace[k].by = leader

C7_Witness ==
    \E p \in Pids :
        /\ procs[p].background
        /\ ReturnedOk(p, "setup_daemon")
        /\ ~CanAcquireCtty(p)
        /\ procs[p].sid \in Pids
        /\ procs[procs[p].sid].state = "exited"

-----------------------------------------------------------------------------
(* C8 *)

\* C8: a process whose fork succeeded makes no further call but exit(0); a
\* process in which setup_daemon(true) returned Ok has forked nothing itself
\* and is the child of the second of two forks, so of the three processes of
\* a launch only the last child returns Ok.
C8_ParentsOnlyExit ==
    \A p \in Pids :
        LET t     == procs[p].trace
            forks == Calls(p, {"fork"})
            own   == {i \in forks : t[i].ok /\ t[i].by = p}
        IN  /\ \A i \in own :
                  /\ procs[p].state \in {"forked", "exited"}
                  /\ procs[p].state = "forked" => i = Len(t)
                  /\ procs[p].state = "exited" =>
                        /\ i + 1 = Len(t)
                        /\ t[i + 1].op = "exit"
                        /\ t[i + 1].data = Decimal(0)
                        /\ procs[p].exit_code = Some(0)
            /\ (SetupDone(p) /\ procs[p].background) =>
                  /\ own = {}
                  /\ Cardinality(forks) = 2
                  /\ \E k \in forks :
                        /\ \A i \in forks : i <= k
                        /\ t[k].data = Decimal(p)
                  /\ Cardinality({q \in Pids : procs[q].inst = procs[p].inst}) = 3

C8_Witness ==
    \E p \in Pids, q \in Pids, r \in Pids :
        /\ p # q
        /\ procs[p].exit_code = Some(0) /\ procs[q].exit_code = Some(0)
        /\ procs[r].background /\ ReturnedOk(r, "setup_daemon")

-----------------------------------------------------------------------------
(* C9 *)

\* C9, as stated: when setup_daemon(true) has returned Ok, descriptors 0, 1
\* and 2 are open and refer to the null device, whatever the descriptor
\* table was at the call.
C9_StdioIsNull ==
    \A p \in Pids :
        (ReturnedOk(p, "setup_daemon") /\ procs[p].background) =>
            \A fd \in 0..2 : procs[p].fdt[fd] = "null"

-----------------------------------------------------------------------------
(* C10 *)

\* C10, as stated: when setup_daemon(true) has returned Ok, the working
\* directory is the configured working directory, or / if none is
\* configured, with or without a chroot directory.
C10_CwdConfiguredOrRoot ==
    \A p \in Pids :
        (ReturnedOk(p, "setup_daemon") /\ procs[p].background) =>
            procs[p].cwd = IF IsSome(config.working_dir)
                           THEN Unwrap(config.working_dir)
                           ELSE RootPath

\* C10, amended: when setup_daemon(true) has returned Ok, the working
\* directory is the configured working directory; if none is configured it
\* is the configured chroot directory; and / only if neither is configured.
C10_CwdConfiguredChrootOrRoot ==
    \A p \in Pids :
        (ReturnedOk(p, "setup_daemon") /\ procs[p].background) =>
            procs[p].cwd = IF IsSome(config.working_dir)
                           THEN Unwrap(config.working_dir)
                           ELSE IF IsSome(config.chroot)
                           THEN Unwrap(config.chroot)
                           ELSE RootPath

C10_Witness ==
    /\ config.working_dir = None
    /\ IsSome(config.chroot)
    /\ \E p \in Pids :
          /\ procs[p].background
          /\ ReturnedOk(p, "setup_daemon")
          /\ procs[p].cwd = Unwrap(config.chroot)

-----------------------------------------------------------------------------
(* C11 *)

\* The calls of setup_daemon that detach the process from its launcher.
DetachCalls == DaemonizeCalls \ {"set_current_dir"}

\* C11: setup_daemon(false) makes no fork, no setsid, no umask and no call
\* on the null device: the process stays the only one of its launch, in
\* the shell's session, with the umask it had and no standard stream on
\* the null device.  Apart from the PID-file calls it makes at most one
\* set_current_dir, and when it has returned Ok the working directory is
\* the configured one, else the chroot directory, else the directory of
\* the launch.
C11_ForegroundKeepsProcess ==
    \A p \in Pids :
        ~procs[p].background =>
            /\ Calls(p, DetachCalls) = {}
            /\ \A q \in Pids : procs[q].inst = procs[p].inst => q = p
            /\ procs[p].sid = ShellSession
            /\ procs[p].pgid = p
            /\ procs[p].umask = 18
            /\ procs[p].dev_null = None
            /\ \A fd \in 0..2 : procs[p].fdt[fd] # "null"
            /\ Cardinality(Calls(p, {"set_current_dir"})) <= 1
            /\ (procs[p].call = "setup_daemon" =>
                   \A i \in 1..Len(procs[p].trace) :
                       procs[p].trace[i].op \in
                           {"open_pid_file", "flock", "set_current_dir", "exit"})
            /\ (ReturnedOk(p, "setup_daemon") =>
                   procs[p].cwd = IF IsSome(config.working_dir)
                                  THEN Unwrap(config.working_dir)
                                  ELSE IF IsSome(config.chroot)
                                  THEN Unwrap(config.chroot)
                                  ELSE LaunchDir)

\* A foreground launch with a PID file and neither directory configured
\* has returned Ok from setup_daemon where it was launched.
C11_Witness ==
    /\ config.working_dir = None /\ config.chroot = None
    /\ IsSome(config.pid_file)
    /\ \E p \in Pids :
          /\ ~procs[p].background
          /\ ReturnedOk(p, "setup_daemon")
          /\ procs[p].cwd = LaunchDir
          /\ Calls(p, {"flock"}) # {}

-----------------------------------------------------------------------------
(* C12 *)

\* C12: a failed call is the last call its method makes.  In every
\* process a failed call is followed by nothing but the exit of the
\* process, the process is back in its caller with Err or has exited with
\* code 1, and exactly one diagnostic was emitted; a process that is
\* still in a method or has returned Ok has no failed call and no
\* diagnostic.
C12_FailureIsFinal ==
    \A p \in Pids :
        LET r == procs[p]
            failed == {i \in 1..Len(r.trace) : ~r.trace[i].ok}
        IN  /\ \A i \in failed :
                  /\ r.state \in {"err", "exited"}
                  /\ r.state = "exited" => r.exit_code = Some(1)
                  /\ \A j \in (i + 1)..Len(r.trace) : r.trace[j].op = "exit"
                  /\ Len(r.diag) = 1
            /\ r.state = "err" => Len(r.trace) \in failed
            /\ r.state \in {"running", "ok", "forked"} =>
                  failed = {} /\ r.diag = <<>>

\* One launch failed to lock the PID file its rival holds, and the rival
\* failed later, when it set its user ID.
C12_Witness ==
    \E p \in Pids, q \in Pids :
        /\ ReturnedErr(p, "setup_daemon")
        /\ Failed(p, Len(procs[p].trace), "flock")
        /\ ReturnedErr(q, "drop_privileges")
        /\ Failed(q, Len(procs[q].trace), "setresuid")
        /\ procs[q].diag = <<"failed to set user ID">>

-----------------------------------------------------------------------------
(* C13 *)

\* C13: whenever adjust_path has been called with a path, its result is
\* that of the reference function.  With no chroot directory configured
\* the result is Ok of the path as given.  With chroot directory C, if the
\* path is C followed by some, possibly no, further components s, the
\* result is Ok of the absolute path of components s; if it is not, so if
\* it is relative or its components do not start with all components of C,
\* the result is an error.
C13_AdjustPathIsReference ==
    \A p \in Pids :
        IsSome(procs[p].adjusted) =>
            LET path   == Unwrap(procs[p].adjusted).path
                result == Unwrap(procs[p].adjusted).result
                n      == Len(path.comps)
                Under(C, k) ==
                    /\ path.abs
                    /\ path.comps = C \o SubSeq(path.comps, k + 1, n)
            IN  IF config.chroot = None
                THEN result = Some(path)
                ELSE LET C == Unwrap(config.chroot)
                     IN  IF \E k \in 0..n : Under(C, k)
                         THEN \E k \in 0..n :
                                 /\ Under(C, k)
                                 /\ result = Some(PathOf(TRUE, SubSeq(path.comps, k + 1, n)))
                         ELSE result = None

\* adjust_path was called with /jail/etc/.. under the chroot directory
\* /jail/etc and returned /.., and was refused /etc/jail under /jail.
C13_Witness ==
    \E p \in Pids :
        /\ IsSome(procs[p].adjusted)
        /\ \/ /\ config.chroot = Some(<<"jail", "etc">>)
              /\ Unwrap(procs[p].adjusted).path = PathOf(TRUE, <<"jail", "etc", "..">>)
              /\ Unwrap(procs[p].adjusted).result = Some(PathOf(TRUE, <<"..">>))
           \/ /\ config.chroot = Some(<<"jail">>)
              /\ Unwrap(procs[p].adjusted).path = PathOf(TRUE, <<"etc", "jail">>)
              /\ Unwrap(procs[p].adjusted).result = None

-----------------------------------------------------------------------------
(* C14 *)

\* The record of the call of from_env process p made.
FromEnvCall(p) == Unwrap(procs[p].from_env)

\* C14: when from_env was called with LISTEN_PID unset, empty or different
\* from the decimal pid of the calling process, whatever LISTEN_FDS was,
\* or with LISTEN_FDS unset or not parsing as a usize, it probed no
\* descriptor and built an empty inventory.
C14_NoMatchNoProbe ==
    \A p \in Pids :
        IsSome(procs[p].from_env) =>
            LET f   == FromEnvCall(p)
                pid == f.environ.LISTEN_PID
                n   == f.environ.LISTEN_FDS
            IN  (\/ pid = None
                 \/ pid = Some(<<>>)
                 \/ pid # Some(f.own_pid)
                 \/ n = None
                 \/ ParseUsize(Unwrap(n)) = None)
                => f.probed = <<>> /\ f.fds = <<>>

\* from_env was called with the pid of another process in LISTEN_PID, a
\* count of 2 and a socket as descriptor 3, and built an empty inventory.
C14_Witness ==
    \E p \in Pids :
        /\ IsSome(procs[p].from_env)
        /\ FromEnvCall(p).environ.LISTEN_PID = Some(Decimal(p + 1))
        /\ FromEnvCall(p).environ.LISTEN_FDS = Some(<<"2">>)
        /\ procs[p].fdt[3] = "tcp:8080"
        /\ procs[p].sockets = Some(<<>>)

-----------------------------------------------------------------------------
(* C15 *)

\* C15: from_env probes consecutive descriptors from 3 on, at most 32 of
\* them and so none at or above 35, and its inventory holds at most 32;
\* when LISTEN_PID matched and LISTEN_FDS parsed as n, it probed exactly
\* min(n, 32) descriptors.
C15_ProbesClamped ==
    \A p \in Pids :
        IsSome(procs[p].from_env) =>
            LET f == FromEnvCall(p)
                n == ParseUsize(UnwrapOrDefault(f.environ.LISTEN_FDS))
            IN  /\ \A i \in 1..Len(f.probed) :
                       f.probed[i] = 3 + i - 1 /\ f.probed[i] >= 3 /\ f.probed[i] < 35
                /\ Len(f.probed) <= 32
                /\ Len(f.fds) <= 32
                /\ (f.environ.LISTEN_PID = Some(f.own_pid)
                    /\ IsSome(f.environ.LISTEN_FDS) /\ IsSome(n)) =>
                       Len(f.probed) = IF Unwrap(n) < 32 THEN Unwrap(n) ELSE 32

\* from_env was called with a count of 1000: it probed descriptors 3 to
\* 34 and kept the three sockets among them.
C15_Witness ==
    \E p \in Pids :
        /\ IsSome(procs[p].from_env)
        /\ FromEnvCall(p).environ.LISTEN_FDS = Some(<<"1", "0", "0", "0">>)
        /\ Len(FromEnvCall(p).probed) = 32
        /\ FromEnvCall(p).probed[32] = 34
        /\ Len(FromEnvCall(p).fds) = 3

-----------------------------------------------------------------------------
(* C16 *)

\* The record of the last call process p made on its EnvSockets.
LastCall(p) == Unwrap(procs[p].last)

\* C16: every socket a take or pop call returned had FD_CLOEXEC set when
\* it was returned, and has it set; the last take or pop call returned a
\* socket only if its descriptor has the flag.
C16_ReturnedCloexec ==
    \A p \in Pids :
        /\ \A i \in 1..Len(procs[p].taken) :
              /\ procs[p].taken[i].cloexec
              /\ procs[p].taken[i].raw_fd \in procs[p].cloexec
        /\ (IsSome(procs[p].last) /\ LastCall(p).op \in {"take", "pop"}
            /\ IsSome(LastCall(p).handle)) =>
               Unwrap(LastCall(p).handle) \in procs[p].cloexec

\* A take returned a socket, and a later pop found a descriptor on which
\* the flag could not be set and returned None.
C16_Witness ==
    \E p \in Pids :
        /\ Len(procs[p].taken) = 1
        /\ procs[p].taken[1].op = "take"
        /\ IsSome(procs[p].last)
        /\ LastCall(p).op = "pop"
        /\ LastCall(p).answer
        /\ LastCall(p).handle = None

-----------------------------------------------------------------------------
(* C17 *)

\* The number of descriptors of a kind and address in an inventory.
CountOf(fds, ty, addr) ==
    Cardinality({i \in 1..Len(fds) :
                    fds[i].socket_type = ty /\ fds[i].socket_addr = addr})

\* The number of sockets of a kind and address handed to the application.
ReturnedOf(p, ty, addr) ==
    Cardinality({i \in 1..Len(procs[p].taken) :
                    /\ procs[p].taken[i].socket_type = ty
                    /\ procs[p].taken[i].socket_addr = addr})

-----------------------------------------------------------------------------
(* C18 *)

\* C18: is_empty and has leave the inventory as it was.  A take or pop
\* that matched nothing leaves it as it was too; one that matched leaves
\* it without the first descriptor that matched and with all others in
\* their order, so has answers as before for every other kind and address.
C18_OnlyMatchedRemoved ==
    \A p \in Pids :
        (IsSome(procs[p].last) /\ IsSome(procs[p].sockets)) =>
            LET c      == LastCall(p)
                before == c.before
                after  == Unwrap(procs[p].sockets)
                Match(v) == /\ v.socket_type = c.ty
                            /\ c.op = "take" => v.socket_addr = c.addr
            IN  IF c.op \in {"is_empty", "has"} \/ ~c.answer
                THEN after = before
                ELSE /\ \E idx \in 1..Len(before) :
                           /\ Match(before[idx])
                           /\ \A j \in 1..(idx - 1) : ~Match(before[j])
                           /\ Len(after) = Len(before) - 1
                           /\ \A j \in 1..Len(after) :
                                 after[j] = IF j < idx THEN before[j] ELSE before[j + 1]
                     /\ \A ty \in SocketTypes, addr \in SocketAddrs :
                           ~Match([socket_type |-> ty, socket_addr |-> addr]) =>
                               has(after, ty, addr) = has(before, ty, addr)

\* Of three TCP sockets the first was taken by its address 127.0.0.1:8080:
\* the inventory still has the other two, bound to 127.0.0.1:9090.
C18_Witness ==
    \E p \in Pids :
        /\ IsSome(procs[p].last)
        /\ LastCall(p).op = "take"
        /\ LastCall(p).ty = "Tcp"
        /\ LastCall(p).addr = "127.0.0.1:8080"
        /\ Len(LastCall(p).before) = 3
        /\ IsSome(LastCall(p).handle)
        /\ Len(Unwrap(procs[p].sockets)) = 2
        /\ has(Unwrap(procs[p].sockets), "Tcp", "127.0.0.1:9090")
        /\ ~has(Unwrap(procs[p].sockets), "Tcp", "127.0.0.1:8080")

-----------------------------------------------------------------------------
(* C19 *)

\* C19, as stated: after from_env(clear_vars), LISTEN_PID and LISTEN_FDS
\* are both unset if clear_vars was true and LISTEN_PID was the pid of the
\* calling process, and both are as they were before the call otherwise.
C19_ClearsOnlyOnMatch ==
    \A p \in Pids :
        IsSome(procs[p].from_env) =>
            LET f == FromEnvCall(p)
            IN  procs[p].environ =
                    IF f.unset_environment /\ f.environ.LISTEN_PID = Some(f.own_pid)
                    THEN [LISTEN_PID |-> None, LISTEN_FDS |-> None]
                    ELSE f.environ

-----------------------------------------------------------------------------
(* C20 *)

\* The inventory of the two sockets the launcher passed.
PassedInventory ==
    <<[socket_type |-> "Tcp", socket_addr |-> "127.0.0.1:8080", raw_fd |-> 3],
      [socket_type |-> "Udp", socket_addr |-> "127.0.0.1:8080", raw_fd |-> 4]>>

\* C20, as stated: with LISTEN_PID the pid of the process the launcher
\* started and two valid sockets passed, from_env builds the inventory of
\* the two sockets, whether it is called before setup_daemon or after it.
C20_InventoryAnyTime ==
    \A p \in Pids :
        IsSome(procs[p].from_env) => FromEnvCall(p).fds = PassedInventory

\* C20, amended: from_env builds the inventory of the two sockets when it
\* is called in the process the launcher started, so before setup_daemon
\* or after setup_daemon(false); called after setup_daemon(true), in the
\* process the second fork made, it builds an empty inventory, though the
\* sockets are open there.
C20_InventoryInLaunchedProcess ==
    \A p \in Pids :
        IsSome(procs[p].from_env) =>
            LET f == FromEnvCall(p)
            IN  IF f.after_setup /\ procs[p].background
                THEN /\ f.own_pid # Decimal(FirstPid)
                     /\ f.probed = <<>>
                     /\ f.fds = <<>>
                ELSE /\ f.own_pid = Decimal(FirstPid)
                     /\ f.fds = PassedInventory

\* setup_daemon(true) has returned Ok in the daemon, from_env was called
\* there and built an empty inventory, with both sockets open.
C20_Witness ==
    \E p \in Pids :
        /\ procs[p].background
        /\ ReturnedOk(p, "setup_daemon")
        /\ IsSome(procs[p].from_env)
        /\ FromEnvCall(p).after_setup
        /\ procs[p].sockets = Some(<<>>)
        /\ procs[p].fdt[3] = "tcp:8080"
        /\ procs[p].fdt[4] = "udp:8080"

-----------------------------------------------------------------------------
(* C21 *)

\* C21, as stated: a switch_logging call made by a thread after a call of
\* its own that returned Ok returns Err, and leaves the logger installed
\* and the maximum level as that first call left them.
C21_SecondSwitchErr ==
    \A p \in Pids :
        LET sw == procs[p].log.switches
        IN  \A i \in 1..Len(sw), j \in 1..Len(sw) :
                (j < i /\ sw[j].by = sw[i].by /\ sw[j].outcome = "ok") =>
                    /\ sw[i].outcome = "err"
                    /\ sw[i].inner = sw[j].inner
                    /\ sw[i].max_level = sw[j].max_level

-----------------------------------------------------------------------------
(* C22 *)

\* The threads that hold the guard of the installed logger's target.
Writers(p) ==
    {t \in Threads : procs[p].log.threads[t].pc \in {"write", "unlock", "unlock_failed"}}

\* C22: in every process, under every interleaving, a logger was put into
\* the global logger at most once, and it is there if it was; at most one
\* switch_logging call returned Ok, every call saw either no logger or the
\* one that is installed, and at most one thread at a time holds the
\* target of the installed logger, the one that locked its mutex.
C22_SwitchOnceWriteAlone ==
    \A p \in Pids :
        LET l  == procs[p].log
            sw == l.switches
        IN  /\ l.installs <= 1
            /\ l.installs = 1 <=> IsSome(l.inner)
            /\ Cardinality({i \in 1..Len(sw) : sw[i].outcome = "ok"}) <= 1
            /\ \A i \in 1..Len(sw) :
                  /\ IsSome(sw[i].inner) => sw[i].inner = l.inner
                  /\ sw[i].outcome = "ok" => Unwrap(l.inner).by = sw[i].by
            /\ Cardinality(Writers(p)) <= 1
            /\ \A t \in Writers(p) : l.mutex = t /\ IsSome(l.inner)

\* Two threads called switch_logging: the first installed its logger, the
\* second panicked; the first now writes to the target while the logger is
\* still its own.
C22_Witness ==
    \E p \in Pids :
        LET l == procs[p].log
        IN  /\ \E i \in 1..Len(l.switches) :
                  l.switches[i].outcome = "panic" /\ l.switches[i].by = 2
            /\ IsSome(l.inner)
            /\ Unwrap(l.inner).by = 1
            /\ l.threads[1].pc = "write"
            /\ l.mutex = 1

-----------------------------------------------------------------------------
(* C23 *)

\* C23: with a user configured, every initgroups and setresgid call is
\* made with the id of the configured group, or with the user's primary
\* group id if no group is configured; and when drop_privileges has
\* returned Ok the real, effective and saved group ids are that id and the
\* real, effective and saved user ids are the user's id.
C23_TargetGroupAndUser ==
    IsSome(config.user) =>
        LET gid == IF IsSome(config.group)
                   THEN Unwrap(config.group).gid
                   ELSE Unwrap(config.user).gid
            uid == Unwrap(config.user).uid
        IN  \A p \in Pids :
                /\ \A i \in Calls(p, {"initgroups", "setresgid"}) :
                      procs[p].trace[i].data = Decimal(gid)
                /\ ReturnedOk(p, "drop_privileges") =>
                      /\ procs[p].rgid = gid /\ procs[p].egid = gid /\ procs[p].sgid = gid
                      /\ procs[p].ruid = uid /\ procs[p].euid = uid /\ procs[p].suid = uid

\* A user and a group with different group ids are configured, and
\* drop_privileges has returned Ok with the group's id in place.
C23_Witness ==
    /\ IsSome(config.user) /\ IsSome(config.group)
    /\ Unwrap(config.group).gid # Unwrap(config.user).gid
    /\ \E p \in Pids :
          /\ ReturnedOk(p, "drop_privileges")
          /\ procs[p].egid = Unwrap(config.group).gid
          /\ procs[p].euid = Unwrap(config.user).uid
          /\ Calls(p, {"initgroups"}) # {}

-----------------------------------------------------------------------------
(* C24 *)

\* The positions at which process q wrote its pid to the PID file.
PidWrites(q) ==
    {i \in 1..Len(procs[q].trace) :
        /\ procs[q].trace[i].op = "write_pid_file"
        /\ procs[q].trace[i].ok
        /\ procs[q].trace[i].by = q}

\* C24, as stated: when a launch could not lock the PID file because a
\* process of another launch holds the lock, is alive and has recorded its
\* pid in the file, the file holds what that process recorded.
C24_FailedLockKeepsContent ==
    \A p \in Pids, q \in Pids :
        (/\ procs[p].inst # procs[q].inst
         /\ \E i \in 1..Len(procs[p].trace) : Failed(p, i, "flock")
         /\ procs[q].state \in {"running", "ok"}
         /\ IsSome(procs[q].pid_file)
         /\ PidWrites(q) # {})
        => pidFile = Repeat(Decimal(q), Cardinality(PidWrites(q)))

-----------------------------------------------------------------------------
(* C25 *)

\* C25, as stated: with a chroot directory configured, when
\* drop_privileges has returned Ok after setup_daemon, the working
\* directory of the process is the new root directory or lies under it,
\* in the background and in the foreground and whatever working directory
\* is configured.
C25_CwdInsideRoot ==
    \A p \in Pids :
        (IsSome(config.chroot) /\ ReturnedOk(p, "drop_privileges")) =>
            IsPrefix(procs[p].root, procs[p].cwd)

-----------------------------------------------------------------------------
(* C26 *)

\* C26, as stated: with a group configured, when drop_privileges has
\* returned Ok the effective group id of the process is the id of that
\* group, with a user configured and without.
C26_GroupApplied ==
    \A p \in Pids :
        (IsSome(config.group) /\ ReturnedOk(p, "drop_privileges")) =>
            procs[p].egid = Unwrap(config.group).gid

-----------------------------------------------------------------------------
(* C27 *)

\* The descriptors of an inventory that a take or pop call looks for.
Matching(c, fds) ==
    {i \in 1..Len(fds) :
        /\ fds[i].socket_type = c.ty
        /\ c.op = "take" => fds[i].socket_addr = c.addr}

\* C27, as stated: a take or pop call returns None only if the inventory
\* held no descriptor of the kind, and for take the address, it asked for.
C27_NoneOnlyWhenAbsent ==
    \A p \in Pids :
        (IsSome(procs[p].last) /\ LastCall(p).op \in {"take", "pop"}
         /\ LastCall(p).handle = None) =>
            Matching(LastCall(p), LastCall(p).before) = {}

\* C27, amended: a take or pop call returns None if the inventory held no
\* descriptor it asked for, and also if FD_CLOEXEC could not be set on the
\* first one it asked for, which is then gone from the inventory without
\* having been returned; otherwise it returns that first descriptor, with
\* the flag set.
C27_NoneWhenAbsentOrUnflagged ==
    \A p \in Pids :
        (IsSome(procs[p].last) /\ LastCall(p).op \in {"take", "pop"}) =>
            LET c     == LastCall(p)
                found == Matching(c, c.before)
                first == CHOOSE i \in found : \A j \in found : i <= j
                fd    == c.before[first].raw_fd
                left  == {Unwrap(procs[p].sockets)[k].raw_fd :
                             k \in 1..Len(Unwrap(procs[p].sockets))}
            IN  IF found = {}
                THEN c.handle = None /\ Unwrap(procs[p].sockets) = c.before
                ELSE /\ fd \notin left
                     /\ \/ c.handle = Some(fd) /\ fd \in procs[p].cloexec
                        \/ c.handle = None /\ fd \notin procs[p].cloexec

\* has_tcp(127.0.0.1:8080) was true and take_tcp(127.0.0.1:8080) returned
\* None: the flag could not be set on descriptor 3, which is gone from the
\* inventory.
C27_Witness ==
    \E p \in Pids :
        /\ IsSome(procs[p].last)
        /\ LastCall(p).op = "take"
        /\ has(LastCall(p).before, "Tcp", "127.0.0.1:8080")
        /\ LastCall(p).ty = "Tcp" /\ LastCall(p).addr = "127.0.0.1:8080"
        /\ LastCall(p).handle = None
        /\ ~has(Unwrap(procs[p].sockets), "Tcp", "127.0.0.1:8080")
        /\ procs[p].taken = <<>>


-----------------------------------------------------------------------------
(* C28 *)

\* C28, as stated: with a PID file configured and created by setup_daemon,
\* whenever drop_privileges has returned Ok, on its first call or a later
\* one, the PID file holds exactly the decimal pid of the process that
\* called it, nothing before it and nothing after it.
C28_PidFileIsExactlyPid ==
    \A p \in Pids :
        (/\ IsSome(config.pid_file)
         /\ IsSome(procs[p].pid_file)
         /\ ReturnedOk(p, "drop_privileges")) =>
            pidFile = Decimal(p)


-----------------------------------------------------------------------------
(* C29 *)

\* The process the launcher started: no fork of another process made it.
Original(p) == \A i \in Calls(p, {"fork"}) : procs[p].trace[i].by = p

\* A step of setup_daemon(true) has failed in process q.
SetupFailed(q) ==
    /\ procs[q].background
    /\ \E i \in 1..Len(procs[q].trace) :
          /\ ~procs[q].trace[i].ok
          /\ procs[q].trace[i].op \in {"open_pid_file", "flock"} \cup DaemonizeCalls

-----------------------------------------------------------------------------
(* C30 *)

\* C30, as stated: from the creation of the PID-file guard on, across both
\* forks and the exits of both parents, as long as a process of the launch
\* is alive and owns the guard, the lock on the PID file is held by the
\* launch, so that no other process can acquire it.
C30_LockHeldWhileAlive ==
    \A p \in Pids :
        (procs[p].state # "exited" /\ IsSome(procs[p].pid_file)) =>
            lockHolder = procs[p].inst

====
